---- MODULE Spec2Model ----
(***************************************************************************)
(* PlayNex backend: the Express route handlers and the Mongoose documents  *)
(* they read and write.  A state is the content of the database            *)
(* collections, the rate limiters' hit counters, the registrations that    *)
(* are between their existence check and their insert, and the last        *)
(* response sent.  One action is one HTTP request run through its          *)
(* middleware chain and handler.                                           *)
(***************************************************************************)
EXTENDS Integers, Sequences, FiniteSets, TLC

\* ------------------------------------------------------------------ bounds
NumUsers == 2       \* seeded user documents (ids 1..NumUsers)
NumVideos == 2      \* seeded video documents (ids 1..NumVideos)
NumNames == 2       \* distinct lower-cased usernames / emails a client sends
MaxListLen == 2     \* longest id list a like document or playlist may grow to
MaxViews == 3       \* views counted over all videos
MaxPending == 2
NumPasswords == 2
MaxClock == 2     \* registrations between findOne and create

\* ------------------------------------------------------- program constants
HistoryCap == 100       \* watchHistory.slice(0, 100)
UserLimiterMax == 10    \* createRateLimiterWith(24, 0, 10) on the user routes
VideoLimiterMax == 5
DatabaseLimiterMax == 2    \* createRateLimiterWith(24, 0, 5) on the video routes

NoUser == 0
NoToken == [valid |-> FALSE, uid |-> 0, present |-> FALSE]

UserIds == 1..NumUsers
\* the id of a user document that is no longer (or not yet) in the collection
GhostUser == NumUsers + 1
VideoIds == 1..NumVideos
\* ids a request can name: the seeded ones and one that matches no document
VideoIdSpace == 1..(NumVideos + 1)
UserIdSpace == 1..(NumUsers + 1)
\* a comment, tweet or playlist id: 1 is the seeded document, 2 matches none
OneIdSpace == {1, 2}
\* video ids the like route is asked about: a seeded one and a missing one
LikeVideoSpace == {1, NumVideos + 1}

\* ------------------------------------------------------- request parameters
\* A route parameter is the text the client put in the URL.  "hex" is the
\* 24-digit lower-case form ObjectId.toString() prints, "HEX" the same digits
\* in upper case (a valid id that casts to the same ObjectId), "bad" a text
\* that is no ObjectId.
Param(i, f) == [id |-> i, form |-> f]
ValidForms == {"hex", "HEX"}
ParamsOf(S) == {Param(i, f) : i \in S, f \in ValidForms} \cup {Param(0, "bad")}

isValidObjectId(p) == p.form \in ValidForms

\* Mongoose casts a parameter to the ObjectId it denotes.
CastObjectId(p) == p.id

\* p === id.toString(): string equality of the raw text with the printed id.
StrEqualsId(p, id) == p.form = "hex" /\ p.id = id

\* ------------------------------------------------------------- sequences
RemoveAt(s, i) == [j \in 1..(Len(s) - 1) |-> IF j < i THEN s[j] ELSE s[j + 1]]

\* $pull: every element equal to x is removed, the rest keep their order.
Pull(s, x) == SelectSeq(s, LAMBDA e : e # x)

Range(s) == {s[i] : i \in 1..Len(s)}
NoDuplicates(s) == \A i, j \in 1..Len(s) : s[i] = s[j] => i = j
Min(a, b) == IF a < b THEN a ELSE b

\* MongooseArray.indexOf(p): loose equality of the raw text with each element,
\* which compares the text with the element's toString().  0 when not found.
IndexOfText(list, p) ==
    IF \E i \in 1..Len(list) : StrEqualsId(p, list[i])
    THEN CHOOSE i \in 1..Len(list) :
            /\ StrEqualsId(p, list[i])
            /\ \A j \in 1..(i - 1) : ~StrEqualsId(p, list[j])
    ELSE 0

\* ------------------------------------------------------------------ state
VARIABLES
    users,       \* User collection: id -> [username, email, watchHistory]
    videos,      \* Video collection: id -> [owner, views, isPublished]
    playlists,   \* Playlist collection: id -> [owner, title, videos]
    tweets,      \* Tweet collection: id -> [author, content]
    comments,    \* Comment collection: id -> [owner, content, video]
    likes,       \* Like collection: likedBy -> that user's documents, oldest first
    subs,        \* Subscription collection: <<subscriber, channel>> -> documents
    hits,        \* rate limiters: limiter -> requests counted in the window
    pending,     \* registrations that passed findOne and have not inserted
    clock,       \* the server's time in seconds, as jwt.sign reads it for iat
    served,      \* video -> the 200 answers getVideoById has sent for it
    resp         \* the last response and the request it answers

dbvars == <<users, videos, playlists, tweets, comments, likes, subs>>
vars == <<users, videos, playlists, tweets, comments, likes, subs, hits,
          pending, clock, served, resp>>

\* ------------------------------------------------------------ credentials
\* What a request carries: an accessToken cookie and/or an Authorization
\* header.  A token is valid when jwt.verify accepts it (signature, expiry).
Token(u) == [valid |-> TRUE, uid |-> u, present |-> TRUE]
BadToken == [valid |-> FALSE, uid |-> 0, present |-> TRUE]
Cred(c, h) == [cookie |-> c, authorization |-> h]
NoCred == Cred(NoToken, NoToken)
CookieCred(u) == Cred(Token(u), NoToken)
BearerCred(u) == Cred(NoToken, Token(u))

\* Node lower-cases header names, so req.headers holds the bearer token under
\* "authorization".
HeaderGet(cred, name) ==
    IF name = "authorization" THEN cred.authorization ELSE NoToken

\* verifyJWT without the User.findById step
verifyJWT_NoUserLookup(cred) ==
    LET accessToken == IF cred.cookie.present THEN cred.cookie
                       ELSE HeaderGet(cred, "Authorization")
    IN  IF ~accessToken.present THEN NoUser
        ELSE IF ~accessToken.valid THEN NoUser
        ELSE accessToken.uid

\* The user verifyJWT puts in req.user, NoUser when it throws 401.
verifyJWT(cred) ==
    LET accessToken == IF cred.cookie.present THEN cred.cookie
                       ELSE HeaderGet(cred, "Authorization")
    IN  IF ~accessToken.present THEN NoUser
        ELSE IF ~accessToken.valid THEN NoUser
        ELSE IF accessToken.uid \notin DOMAIN users THEN NoUser
        ELSE accessToken.uid

\* Every credential a client may present.
AllCreds ==
    {NoCred, Cred(BadToken, NoToken), Cred(NoToken, BadToken)}
        \cup {CookieCred(u) : u \in UserIdSpace}
        \cup {BearerCred(u) : u \in UserIds}
\* Credentials of logged-in clients that keep the accessToken cookie.
UserCreds == {CookieCred(u) : u \in UserIds}
\* The clients of most scenarios: the logged-in ones and an anonymous one.
ClientCreds == UserCreds \cup {NoCred}

\* ---------------------------------------------------------------- responses
\* null, and undefined where a number is expected
Null == "null"
Undefined == 0

\* new ApiError(statusCode, message): data is null
ApiError(statusCode) ==
    [name |-> "ApiError", statusCode |-> statusCode, data |-> Null]
\* an error of the runtime or of a library: it carries no statusCode
OtherError(name) == [name |-> name, statusCode |-> Undefined, data |-> Null]

\* new ApiResponse(statusCode, message, data)
ApiResponse(statusCode, data) ==
    [statusCode |-> statusCode, data |-> data,
     success |-> statusCode >= 200 /\ statusCode < 400]

\* an error middleware that sends the error's own fields
errorMiddleware_NoFallback(err) ==
    [status |-> err.statusCode, body |-> ApiResponse(err.statusCode, err.data)]

\* errorMiddleware(err, req, res, next): the status line and the JSON body
errorMiddleware(err) ==
    LET e == IF err.name # "ApiError" THEN ApiError(500) ELSE err
        statusCode == IF e.statusCode = Undefined THEN 500 ELSE e.statusCode
        data == e.data
    IN  [status |-> statusCode, body |-> ApiResponse(statusCode, data)]

\* catch (error) { throw new ApiError(error?.statusCode || 500, ...) }
HandlerCatch(error) ==
    ApiError(IF error.statusCode = Undefined THEN 500 ELSE error.statusCode)

\* verifyJWT's catch block: throw new ApiError(401, error?.message || ...)
verifyJWTCatch(error) == ApiError(401)

\* What the client receives when a handler ends with the given status: 200 and
\* 201 are sent by the handler with its result, every other status is an
\* ApiError thrown in the handler, which asyncHandler hands to errorMiddleware.
asyncHandler(status) ==
    IF status >= 400 THEN errorMiddleware(HandlerCatch(ApiError(status)))
    ELSE [status |-> status, body |-> ApiResponse(status, "result")]

Response(op, cred, user, target, status) ==
    [op |-> op, cred |-> cred, user |-> user, target |-> target,
     status |-> asyncHandler(status).status, body |-> asyncHandler(status).body]

Respond(op, cred, user, target, status) ==
    resp' = Response(op, cred, user, target, status)

\* verifyJWT threw: the error middleware answers 401 and the handler is skipped.
Unauthorized(op, cred) ==
    /\ verifyJWT(cred) = NoUser
    /\ Respond(op, cred, NoUser, 0, 401)
    /\ UNCHANGED <<dbvars, pending, clock, served>>

\* ------------------------------------------------------------ like toggles
NewLike(u) == [likedBy |-> u, videos |-> <<>>, comments |-> <<>>, tweets |-> <<>>]

\* Like.findOne({likedBy}) || Like.create({likedBy}): u's documents afterwards.
WithLikeDoc(u) == IF likes[u] # <<>> THEN likes[u] ELSE <<NewLike(u)>>

\* indexOf, then splice(index, 1) or push.
ToggleInList(list, p) ==
    IF IndexOfText(list, p) > 0
    THEN RemoveAt(list, IndexOfText(list, p))
    ELSE Append(list, CastObjectId(p))

\* res.status(200) after the splice, res.status(201) after the push
ToggleStatus(list, p) == IF IndexOfText(list, p) > 0 THEN 200 ELSE 201

toggleVideoLike(cred, p) ==
    LET u == verifyJWT(cred)
        userLikes == WithLikeDoc(u)[1]
    IN  /\ u # NoUser
        /\ UNCHANGED <<users, videos, playlists, tweets, comments, subs, hits, pending, clock, served>>
        /\ IF ~isValidObjectId(p)
           THEN Respond("toggleVideoLike", cred, u, 0, 400) /\ UNCHANGED likes
           ELSE IF CastObjectId(p) \notin DOMAIN videos
           THEN Respond("toggleVideoLike", cred, u, p.id, 404) /\ UNCHANGED likes
           ELSE /\ Len(ToggleInList(userLikes.videos, p)) <= MaxListLen
                /\ likes' = [likes EXCEPT ![u] =
                        [WithLikeDoc(u) EXCEPT ![1].videos = ToggleInList(@, p)]]
                /\ Respond("toggleVideoLike", cred, u, p.id,
                           ToggleStatus(userLikes.videos, p))

toggleCommentLike(cred, p) ==
    LET u == verifyJWT(cred)
        userLikes == WithLikeDoc(u)[1]
    IN  /\ u # NoUser
        /\ UNCHANGED <<users, videos, playlists, tweets, comments, subs, hits, pending, clock, served>>
        /\ IF ~isValidObjectId(p)
           THEN Respond("toggleCommentLike", cred, u, 0, 400) /\ UNCHANGED likes
           ELSE IF CastObjectId(p) \notin DOMAIN comments
           THEN Respond("toggleCommentLike", cred, u, p.id, 404) /\ UNCHANGED likes
           ELSE /\ Len(ToggleInList(userLikes.comments, p)) <= MaxListLen
                /\ likes' = [likes EXCEPT ![u] =
                        [WithLikeDoc(u) EXCEPT ![1].comments = ToggleInList(@, p)]]
                /\ Respond("toggleCommentLike", cred, u, p.id,
                           ToggleStatus(userLikes.comments, p))

toggleTweetLike(cred, p) ==
    LET u == verifyJWT(cred)
        userLikes == WithLikeDoc(u)[1]
    IN  /\ u # NoUser
        /\ UNCHANGED <<users, videos, playlists, tweets, comments, subs, hits, pending, clock, served>>
        /\ IF ~isValidObjectId(p)
           THEN Respond("toggleTweetLike", cred, u, 0, 400) /\ UNCHANGED likes
           ELSE IF CastObjectId(p) \notin DOMAIN tweets
           THEN Respond("toggleTweetLike", cred, u, p.id, 404) /\ UNCHANGED likes
           ELSE /\ Len(ToggleInList(userLikes.tweets, p)) <= MaxListLen
                /\ likes' = [likes EXCEPT ![u] =
                        [WithLikeDoc(u) EXCEPT ![1].tweets = ToggleInList(@, p)]]
                /\ Respond("toggleTweetLike", cred, u, p.id,
                           ToggleStatus(userLikes.tweets, p))

\* ------------------------------------------------------ subscription toggle
HasSubscription(u, c) == subs[<<u, c>>] > 0

\* a toggle that skips the findOne and always creates
ToggleSubAlwaysCreate(u, c) == [subs EXCEPT ![<<u, c>>] = @ + 1]

\* existingSubscription.deleteOne() or Subscription.create(...)
ToggleSub(u, c) ==
    IF HasSubscription(u, c)
    THEN [subs EXCEPT ![<<u, c>>] = @ - 1]
    ELSE [subs EXCEPT ![<<u, c>>] = @ + 1]

toggleSubscription(cred, p) ==
    LET u == verifyJWT(cred)
        c == CastObjectId(p)
    IN  /\ u # NoUser
        /\ UNCHANGED <<users, videos, playlists, tweets, comments, likes, hits, pending, clock, served>>
        /\ IF ~isValidObjectId(p)
           THEN Respond("toggleSubscription", cred, u, 0, 400) /\ UNCHANGED subs
           ELSE IF c \notin DOMAIN users
           THEN Respond("toggleSubscription", cred, u, c, 404) /\ UNCHANGED subs
           ELSE IF StrEqualsId(p, u)
           THEN Respond("toggleSubscription", cred, u, c, 400) /\ UNCHANGED subs
           ELSE /\ subs' = ToggleSub(u, c)
                /\ Respond("toggleSubscription", cred, u, c,
                           IF HasSubscription(u, c) THEN 200 ELSE 201)

\* ------------------------------------------------------------ initial state
\* A text with its letter case: username and email are stored lower-cased.
Text(t, caps) == [text |-> t, caps |-> caps]
toLowerCase(s) == [s EXCEPT !.caps = FALSE]

\* Passwords that pass the pattern, and one that does not.
Passwords == 1..NumPasswords
WeakPassword == 0

\* A password value with the number of times bcrypt.hashSync was applied to it.
Plain(p) == [plain |-> p, rounds |-> 0]
Hash(x) == [x EXCEPT !.rounds = @ + 1]
\* bcrypt.compareSync(password, stored): stored is the hash of password
compareSync(password, stored) == stored = Hash(Plain(password))

\* a pre("save") hook that hashes on every save
PreSave_Always(old, doc) == [doc EXCEPT !.password = Hash(@)]

\* userSchema.pre("save"): the password is hashed when the path was modified
\* (old: the document as loaded, doc: the document being saved)
PreSave(old, doc) ==
    IF doc.password = old.password THEN doc
    ELSE [doc EXCEPT !.password = Hash(@)]

\* A document made by User.create has no stored value: the password it is
\* given counts as modified.
NewDocument == [password |-> Plain(WeakPassword)]

\* jwt.sign({_id}, REFRESH_TOKEN_SECRET, {expiresIn}) at second t: the text
\* of the token is a function of the payload {_id, iat, exp}
RefreshToken(u, t) == [present |-> TRUE, valid |-> TRUE, uid |-> u, iat |-> t]
NoRefreshToken == [present |-> FALSE, valid |-> FALSE, uid |-> 0, iat |-> 0]
BadRefreshToken == [present |-> TRUE, valid |-> FALSE, uid |-> 0, iat |-> 0]

SeedUser(u) == [username |-> Text(u, FALSE), email |-> Text(u, FALSE),
                watchHistory |-> <<>>, version |-> 0,
                password |-> Hash(Plain(1)), refreshToken |-> NoRefreshToken]
OwnerOf(i) == ((i - 1) % NumUsers) + 1
SeedVideo(v) == [owner |-> OwnerOf(v), views |-> 0, isPublished |-> TRUE]

NoHits == [l \in {"user", "video", "database"} |-> 0]
NoneServed == [v \in VideoIds |-> 0]
NoResponse == Response("none", NoCred, NoUser, 0, 0)

Kinds == {"video", "playlist", "tweet", "comment"}

\* The database after NumUsers users registered and created documents of the
\* kinds in K (user 1 owns the playlist, tweet and comment; the videos are
\* shared out); nobody liked or subscribed yet.
Seeded(K) ==
    /\ users = [u \in UserIds |-> SeedUser(u)]
    /\ videos = [v \in IF "video" \in K THEN VideoIds ELSE {} |-> SeedVideo(v)]
    /\ playlists = [i \in IF "playlist" \in K THEN {1} ELSE {} |->
                        [owner |-> 1, title |-> 1, videos |-> <<>>]]
    /\ tweets = [i \in IF "tweet" \in K THEN {1} ELSE {} |->
                        [author |-> 1, content |-> 1]]
    /\ comments = [i \in IF "comment" \in K THEN {1} ELSE {} |->
                        [owner |-> 1, content |-> 1, video |-> 1]]
    /\ likes = [u \in UserIdSpace |-> <<>>]
    /\ subs = [pair \in UserIdSpace \X UserIdSpace |-> 0]
    /\ hits = NoHits
    /\ pending = <<>>
    /\ clock = 0
    /\ served = NoneServed
    /\ resp = NoResponse

Init == Seeded(Kinds)

\* a database that holds documents of one kind only
InitOneKind == \E k \in Kinds : Seeded({k})

\* ------------------------------------------------------------ like routes
\* router.use(verifyJWT), then the handler
LikeVideoRouteFor(Creds) ==
    \E cred \in Creds, p \in ParamsOf(LikeVideoSpace) :
        \/ Unauthorized("toggleVideoLike", cred) /\ UNCHANGED hits
        \/ toggleVideoLike(cred, p)

LikeVideoRoute == LikeVideoRouteFor(ClientCreds)

LikeCommentRoute ==
    \E cred \in ClientCreds, p \in ParamsOf(OneIdSpace) :
        \/ Unauthorized("toggleCommentLike", cred) /\ UNCHANGED hits
        \/ toggleCommentLike(cred, p)

LikeTweetRoute ==
    \E cred \in ClientCreds, p \in ParamsOf(OneIdSpace) :
        \/ Unauthorized("toggleTweetLike", cred) /\ UNCHANGED hits
        \/ toggleTweetLike(cred, p)

NextLike == LikeVideoRoute \/ LikeCommentRoute \/ LikeTweetRoute
SpecLike == Init /\ [][NextLike]_vars

\* ----------------------------------------------------- subscription route
SubscriptionRoute ==
    \E cred \in ClientCreds, p \in ParamsOf(UserIdSpace) :
        \/ Unauthorized("toggleSubscription", cred) /\ UNCHANGED hits
        \/ toggleSubscription(cred, p)

NextSub == SubscriptionRoute
SpecSub == Init /\ [][NextSub]_vars

\* ------------------------------------------------------------ getVideoById
\* the push without the $pull before it, and a push without $position: 0
WatchPush_NoPull(h, v) == <<v>> \o h
WatchPush_AtEnd(h, v) == Append(Pull(h, v), v)

\* $pull: { watchHistory: videoId }, then $push with $each: [videoId], $position: 0
WatchPush(h, v) == <<v>> \o Pull(h, v)

\* no trimming at all
WatchTrim_Never(h) == h

\* if (watchHistory.length > 100) watchHistory = watchHistory.slice(0, 100)
WatchTrim(h) == IF Len(h) > HistoryCap THEN SubSeq(h, 1, HistoryCap) ELSE h

\* updatedUser.watchHistory = ...slice(0, 100); updatedUser.save() on a list
\* longer than the cap: an array that is set as a whole is saved with the
\* document's version (__v) in the filter and raises it by one
SaveTrimmed(doc, h) ==
    IF Len(h) > HistoryCap
    THEN [doc EXCEPT !.watchHistory = WatchTrim(h), !.version = @ + 1]
    ELSE [doc EXCEPT !.watchHistory = h]

RECURSIVE SumViews(_)
SumViews(S) ==
    IF S = {} THEN 0
    ELSE LET v == CHOOSE x \in S : TRUE
         IN  videos[v].views + SumViews(S \ {v})

\* the views counted so far, over all videos
TotalViews == SumViews(DOMAIN videos)

getVideoById(cred, p) ==
    LET u == verifyJWT(cred)
        v == CastObjectId(p)
    IN  /\ u # NoUser
        /\ UNCHANGED <<playlists, tweets, comments, likes, subs, hits, pending, clock>>
        /\ IF ~isValidObjectId(p)
           THEN /\ Respond("getVideoById", cred, u, 0, 400)
                /\ UNCHANGED <<users, videos, served>>
           ELSE IF v \notin DOMAIN videos
           THEN /\ Respond("getVideoById", cred, u, v, 404)
                /\ UNCHANGED <<users, videos, served>>
           ELSE /\ TotalViews < MaxViews
                /\ videos' = [videos EXCEPT ![v].views = @ + 1]
                /\ served' = [served EXCEPT ![v] = @ + 1]
                /\ users' = [users EXCEPT ![u] =
                                SaveTrimmed(@, WatchPush(@.watchHistory, v))]
                /\ Respond("getVideoById", cred, u, v, 200)

VideoRoute ==
    \E cred \in ClientCreds, p \in ParamsOf(VideoIdSpace) :
        \/ Unauthorized("getVideoById", cred) /\ UNCHANGED hits
        \/ getVideoById(cred, p)

\* n videos watched before the seeded ones were published, newest first; their
\* documents are gone, their ids stay in the list.
WatchedBefore(n) == [i \in 1..n |-> NumVideos + i]

\* User 1 has watched nothing, one video less than the cap, or a full list.
InitHistory ==
    /\ \E n \in {0, HistoryCap - 1, HistoryCap} :
        users = [u \in UserIds |->
                    [SeedUser(u) EXCEPT !.watchHistory =
                        IF u = 1 THEN WatchedBefore(n) ELSE <<>>]]
    /\ videos = [v \in VideoIds |-> SeedVideo(v)]
    /\ playlists = <<>> /\ tweets = <<>> /\ comments = <<>>
    /\ likes = [u \in UserIdSpace |-> <<>>]
    /\ subs = [pair \in UserIdSpace \X UserIdSpace |-> 0]
    /\ hits = NoHits
    /\ pending = <<>>
    /\ clock = 0
    /\ served = NoneServed
    /\ resp = NoResponse

NextHistory == VideoRoute
SpecHistory == InitHistory /\ [][NextHistory]_vars

\* --------------------------------------- getVideoById, one await at a time
\* Video.findByIdAndUpdate(videoId, {$inc: {views: 1}}): the database adds one
\* to the stored value (r: the request in flight)
IncViews(r) == [videos EXCEPT ![r.video].views = @ + 1]

\* getVideoById up to Video.findById
getVideoByIdFind(cred, p) ==
    LET u == verifyJWT(cred)
        v == CastObjectId(p)
    IN  /\ u # NoUser
        /\ UNCHANGED <<dbvars, hits, clock, served>>
        /\ IF ~isValidObjectId(p)
           THEN Respond("getVideoById", cred, u, 0, 400) /\ UNCHANGED pending
           ELSE IF v \notin DOMAIN videos
           THEN Respond("getVideoById", cred, u, v, 404) /\ UNCHANGED pending
           ELSE /\ Len(pending) < MaxPending
                /\ pending' = Append(pending,
                                [kind |-> "getVideoById", cred |-> cred, uid |-> u,
                                 video |-> v, seen |-> videos[v].views,
                                 updatedUser |-> [watchHistory |-> <<>>,
                                                 version |-> 0],
                                 pc |-> "found"])
                /\ UNCHANGED resp

\* the next database call of request i, or its response
getVideoByIdStep(i) ==
    LET r == pending[i]
        u == r.uid
        v == r.video
        Goto(pc) == pending' = [pending EXCEPT ![i].pc = pc]
    IN  /\ r.kind = "getVideoById"
        /\ UNCHANGED <<playlists, tweets, comments, likes, subs, hits, clock>>
        /\ IF r.pc = "found"
           THEN /\ TotalViews < MaxViews
                /\ videos' = IncViews(r)
                /\ Goto("counted")
                /\ UNCHANGED <<users, served, resp>>
           ELSE IF r.pc = "counted"
           THEN /\ users' = [users EXCEPT ![u].watchHistory = Pull(@, v)]
                /\ Goto("pulled")
                /\ UNCHANGED <<videos, served, resp>>
           ELSE IF r.pc = "pulled"
           THEN /\ users' = [users EXCEPT ![u].watchHistory = <<v>> \o @]
                /\ pending' = [pending EXCEPT
                                ![i].pc = "pushed",
                                ![i].updatedUser =
                                    [watchHistory |-> users'[u].watchHistory,
                                     version |-> users'[u].version]]
                /\ UNCHANGED <<videos, served, resp>>
           ELSE /\ pending' = RemoveAt(pending, i)
                /\ UNCHANGED videos
                /\ IF /\ Len(r.updatedUser.watchHistory) > HistoryCap
                      /\ users[u].version # r.updatedUser.version
                   THEN \* VersionError: another save came first
                        /\ Respond("getVideoById", r.cred, u, v, 500)
                        /\ UNCHANGED <<users, served>>
                   ELSE /\ IF Len(r.updatedUser.watchHistory) > HistoryCap
                           THEN users' = [users EXCEPT ![u] =
                                    SaveTrimmed(@, r.updatedUser.watchHistory)]
                           ELSE UNCHANGED users
                        /\ served' = [served EXCEPT ![v] = @ + 1]
                        /\ Respond("getVideoById", r.cred, u, v, 200)

ViewFindRoute ==
    \E cred \in ClientCreds, p \in ParamsOf(VideoIdSpace) :
        \/ Unauthorized("getVideoById", cred) /\ UNCHANGED hits
        \/ getVideoByIdFind(cred, p)

ViewStep == \E i \in 1..Len(pending) : getVideoByIdStep(i)

\* requests for videos, in flight together
NextViews == ViewFindRoute \/ ViewStep
SpecViews == Seeded({"video"}) /\ [][NextViews]_vars

\* requests of user 1, whose list is empty, near the cap or full
OverlapFindRoute ==
    \E p \in ParamsOf(VideoIdSpace) : getVideoByIdFind(CookieCred(1), p)
NextOverlap == OverlapFindRoute \/ ViewStep
SpecOverlap == InitHistory /\ [][NextOverlap]_vars

\* ----------------------------------------------------------- rate limiter
\* express-rate-limit counts the request, then answers 429 once the count
\* exceeds max.  Counts past max + 1 behave alike and are not told apart.
LimiterHit(l, max) == hits' = [hits EXCEPT ![l] = Min(@ + 1, max + 1)]
LimiterBlocks(l, max) == hits[l] + 1 > max

\* the 24 hour window ends and the counts start again
WindowReset ==
    /\ hits # NoHits
    /\ hits' = NoHits
    /\ UNCHANGED <<dbvars, pending, clock, served, resp>>

\* ------------------------------------------------------------------ videos
\* a handler without the owner comparison
IsOwner_Anyone(ownerId, u) == TRUE

\* doc.owner.toString() !== req.user._id.toString()
IsOwner(ownerId, u) == ownerId = u

\* Video.findById(text): a text that is no ObjectId makes the query throw a
\* CastError, which the handlers' catch turns into 500.
\* PATCH /videos/:videoId is mounted as limiter, upload.single, updateVideo.
\* After the owner check the handler reads an undeclared identifier
\* (thumbnailPublicId) and throws, so no request reaches findByIdAndUpdate.
updateVideo(cred, p) ==
    LET u == verifyJWT(cred)
        v == CastObjectId(p)
    IN  /\ u # NoUser
        /\ LimiterHit("video", VideoLimiterMax)
        /\ UNCHANGED <<dbvars, pending, clock, served>>
        /\ IF LimiterBlocks("video", VideoLimiterMax)
           THEN Respond("updateVideo", cred, u, p.id, 429)
           ELSE IF ~isValidObjectId(p)
           THEN Respond("updateVideo", cred, u, 0, 500)
           ELSE IF v \notin DOMAIN videos
           THEN Respond("updateVideo", cred, u, v, 404)
           ELSE IF ~IsOwner(videos[v].owner, u)
           THEN Respond("updateVideo", cred, u, v, 401)
           ELSE Respond("updateVideo", cred, u, v, 500)

\* a delete that also takes the id out of every playlist
deleteVideo_Cascade(cred, p, mediaOk) ==
    LET u == verifyJWT(cred)
        v == CastObjectId(p)
    IN  /\ u # NoUser
        /\ UNCHANGED <<users, tweets, comments, likes, subs, hits, pending, clock, served>>
        /\ IF ~isValidObjectId(p)
           THEN Respond("deleteVideo", cred, u, 0, 500) /\ UNCHANGED <<videos, playlists>>
           ELSE IF v \notin DOMAIN videos
           THEN Respond("deleteVideo", cred, u, v, 404) /\ UNCHANGED <<videos, playlists>>
           ELSE IF ~IsOwner(videos[v].owner, u)
           THEN Respond("deleteVideo", cred, u, v, 401) /\ UNCHANGED <<videos, playlists>>
           ELSE /\ videos' = [w \in DOMAIN videos \ {v} |-> videos[w]]
                /\ playlists' = [i \in DOMAIN playlists |->
                                    [playlists[i] EXCEPT !.videos = Pull(@, v)]]
                /\ Respond("deleteVideo", cred, u, v, IF mediaOk THEN 200 ELSE 500)

\* mediaOk: whether the media host reports both deletions as "ok"
deleteVideo(cred, p, mediaOk) ==
    LET u == verifyJWT(cred)
        v == CastObjectId(p)
    IN  /\ u # NoUser
        /\ UNCHANGED <<users, playlists, tweets, comments, likes, subs, hits, pending, clock, served>>
        /\ IF ~isValidObjectId(p)
           THEN Respond("deleteVideo", cred, u, 0, 500) /\ UNCHANGED videos
           ELSE IF v \notin DOMAIN videos
           THEN Respond("deleteVideo", cred, u, v, 404) /\ UNCHANGED videos
           ELSE IF ~IsOwner(videos[v].owner, u)
           THEN Respond("deleteVideo", cred, u, v, 401) /\ UNCHANGED videos
           ELSE /\ videos' = [w \in DOMAIN videos \ {v} |-> videos[w]]
                /\ Respond("deleteVideo", cred, u, v, IF mediaOk THEN 200 ELSE 500)

togglePublishStatus(cred, p) ==
    LET u == verifyJWT(cred)
        v == CastObjectId(p)
    IN  /\ u # NoUser
        /\ UNCHANGED <<users, playlists, tweets, comments, likes, subs, hits, pending, clock, served>>
        /\ IF ~isValidObjectId(p)
           THEN Respond("togglePublishStatus", cred, u, 0, 500) /\ UNCHANGED videos
           ELSE IF v \notin DOMAIN videos
           THEN Respond("togglePublishStatus", cred, u, v, 404) /\ UNCHANGED videos
           ELSE IF ~IsOwner(videos[v].owner, u)
           THEN Respond("togglePublishStatus", cred, u, v, 401) /\ UNCHANGED videos
           ELSE /\ videos' = [videos EXCEPT ![v].isPublished = ~@]
                /\ Respond("togglePublishStatus", cred, u, v, 200)

\* ------------------------------------------------------------------ tweets
\* A request body text: EmptyText is "" or blanks only, the others are not.
EmptyText == 0
IsBlank(content) == content = EmptyText

updateTweet(cred, p, content) ==
    LET u == verifyJWT(cred)
        t == CastObjectId(p)
    IN  /\ u # NoUser
        /\ UNCHANGED <<users, videos, playlists, comments, likes, subs, hits, pending, clock, served>>
        /\ IF ~isValidObjectId(p)
           THEN Respond("updateTweet", cred, u, 0, 400) /\ UNCHANGED tweets
           ELSE IF IsBlank(content)
           THEN Respond("updateTweet", cred, u, t, 400) /\ UNCHANGED tweets
           ELSE IF t \notin DOMAIN tweets
           THEN Respond("updateTweet", cred, u, t, 404) /\ UNCHANGED tweets
           ELSE IF ~IsOwner(tweets[t].author, u)
           THEN Respond("updateTweet", cred, u, t, 401) /\ UNCHANGED tweets
           ELSE /\ tweets' = [tweets EXCEPT ![t].content = content]
                /\ Respond("updateTweet", cred, u, t, 200)

deleteTweet(cred, p) ==
    LET u == verifyJWT(cred)
        t == CastObjectId(p)
    IN  /\ u # NoUser
        /\ UNCHANGED <<users, videos, playlists, comments, likes, subs, hits, pending, clock, served>>
        /\ IF ~isValidObjectId(p)
           THEN Respond("deleteTweet", cred, u, 0, 400) /\ UNCHANGED tweets
           ELSE IF t \notin DOMAIN tweets
           THEN Respond("deleteTweet", cred, u, t, 404) /\ UNCHANGED tweets
           ELSE IF ~IsOwner(tweets[t].author, u)
           THEN Respond("deleteTweet", cred, u, t, 401) /\ UNCHANGED tweets
           ELSE /\ tweets' = [w \in DOMAIN tweets \ {t} |-> tweets[w]]
                /\ Respond("deleteTweet", cred, u, t, 200)

\* ---------------------------------------------------------------- comments
editComment(cred, p, content) ==
    LET u == verifyJWT(cred)
        c == CastObjectId(p)
    IN  /\ u # NoUser
        /\ UNCHANGED <<users, videos, playlists, tweets, likes, subs, hits, pending, clock, served>>
        /\ IF IsBlank(content)
           THEN Respond("editComment", cred, u, p.id, 400) /\ UNCHANGED comments
           ELSE IF ~isValidObjectId(p)
           THEN Respond("editComment", cred, u, 0, 400) /\ UNCHANGED comments
           ELSE IF c \notin DOMAIN comments
           THEN Respond("editComment", cred, u, c, 404) /\ UNCHANGED comments
           ELSE IF ~IsOwner(comments[c].owner, u)
           THEN Respond("editComment", cred, u, c, 401) /\ UNCHANGED comments
           ELSE /\ comments' = [comments EXCEPT ![c].content = content]
                /\ Respond("editComment", cred, u, c, 200)

deleteComment(cred, p) ==
    LET u == verifyJWT(cred)
        c == CastObjectId(p)
    IN  /\ u # NoUser
        /\ UNCHANGED <<users, videos, playlists, tweets, likes, subs, hits, pending, clock, served>>
        /\ IF ~isValidObjectId(p)
           THEN Respond("deleteComment", cred, u, 0, 400) /\ UNCHANGED comments
           ELSE IF c \notin DOMAIN comments
           THEN Respond("deleteComment", cred, u, c, 404) /\ UNCHANGED comments
           ELSE IF ~IsOwner(comments[c].owner, u)
           THEN Respond("deleteComment", cred, u, c, 401) /\ UNCHANGED comments
           ELSE /\ comments' = [w \in DOMAIN comments \ {c} |-> comments[w]]
                /\ Respond("deleteComment", cred, u, c, 200)

\* --------------------------------------------------------------- playlists
\* if (!playlist.videos.includes(videoId)) playlist.videos.push(videoId)
AddToList(list, p) ==
    IF IndexOfText(list, p) > 0 THEN list ELSE Append(list, CastObjectId(p))

\* playlist.videos.filter((v) => v.toString() !== videoId)
FilterOut(list, p) == SelectSeq(list, LAMBDA x : ~StrEqualsId(p, x))

addVideoToPlaylist(cred, pl, vid) ==
    LET u == verifyJWT(cred)
        i == CastObjectId(pl)
    IN  /\ u # NoUser
        /\ UNCHANGED <<users, videos, tweets, comments, likes, subs, hits, pending, clock, served>>
        /\ IF ~isValidObjectId(pl) \/ ~isValidObjectId(vid)
           THEN Respond("addVideoToPlaylist", cred, u, 0, 400) /\ UNCHANGED playlists
           ELSE IF i \notin DOMAIN playlists
           THEN Respond("addVideoToPlaylist", cred, u, i, 404) /\ UNCHANGED playlists
           ELSE IF ~IsOwner(playlists[i].owner, u)
           THEN Respond("addVideoToPlaylist", cred, u, i, 403) /\ UNCHANGED playlists
           ELSE /\ Len(AddToList(playlists[i].videos, vid)) <= MaxListLen
                /\ playlists' = [playlists EXCEPT ![i].videos = AddToList(@, vid)]
                /\ Respond("addVideoToPlaylist", cred, u, i, 200)

removeVideoFromPlaylist(cred, pl, vid) ==
    LET u == verifyJWT(cred)
        i == CastObjectId(pl)
    IN  /\ u # NoUser
        /\ UNCHANGED <<users, videos, tweets, comments, likes, subs, hits, pending, clock, served>>
        /\ IF ~isValidObjectId(pl) \/ ~isValidObjectId(vid)
           THEN Respond("removeVideoFromPlaylist", cred, u, 0, 400) /\ UNCHANGED playlists
           ELSE IF i \notin DOMAIN playlists
           THEN Respond("removeVideoFromPlaylist", cred, u, i, 404) /\ UNCHANGED playlists
           ELSE IF ~IsOwner(playlists[i].owner, u)
           THEN Respond("removeVideoFromPlaylist", cred, u, i, 403) /\ UNCHANGED playlists
           ELSE /\ playlists' = [playlists EXCEPT ![i].videos = FilterOut(@, vid)]
                /\ Respond("removeVideoFromPlaylist", cred, u, i, 200)

deletePlaylist(cred, pl) ==
    LET u == verifyJWT(cred)
        i == CastObjectId(pl)
    IN  /\ u # NoUser
        /\ UNCHANGED <<users, videos, tweets, comments, likes, subs, hits, pending, clock, served>>
        /\ IF ~isValidObjectId(pl)
           THEN Respond("deletePlaylist", cred, u, 0, 400) /\ UNCHANGED playlists
           ELSE IF i \notin DOMAIN playlists
           THEN Respond("deletePlaylist", cred, u, i, 404) /\ UNCHANGED playlists
           ELSE IF ~IsOwner(playlists[i].owner, u)
           THEN Respond("deletePlaylist", cred, u, i, 403) /\ UNCHANGED playlists
           ELSE /\ playlists' = [w \in DOMAIN playlists \ {i} |-> playlists[w]]
                /\ Respond("deletePlaylist", cred, u, i, 200)

updatePlaylist(cred, pl, title) ==
    LET u == verifyJWT(cred)
        i == CastObjectId(pl)
    IN  /\ u # NoUser
        /\ UNCHANGED <<users, videos, tweets, comments, likes, subs, hits, pending, clock, served>>
        /\ IF ~isValidObjectId(pl)
           THEN Respond("updatePlaylist", cred, u, 0, 400) /\ UNCHANGED playlists
           ELSE IF i \notin DOMAIN playlists
           THEN Respond("updatePlaylist", cred, u, i, 404) /\ UNCHANGED playlists
           ELSE IF ~IsOwner(playlists[i].owner, u)
           THEN Respond("updatePlaylist", cred, u, i, 403) /\ UNCHANGED playlists
           ELSE /\ playlists' = [playlists EXCEPT ![i].title = title]
                /\ Respond("updatePlaylist", cred, u, i, 200)

\* ------------------------------------------------- owner-checked routes
\* what a client sends as new content or title: blank, or a new text
BodyTexts == {EmptyText, 2}

UpdateVideoRoute ==
    \E cred \in ClientCreds, p \in ParamsOf(VideoIdSpace) :
        \/ Unauthorized("updateVideo", cred) /\ UNCHANGED hits
        \/ updateVideo(cred, p)

DeleteVideoRouteFor(Creds) ==
    \E cred \in Creds, p \in ParamsOf(VideoIdSpace), mediaOk \in BOOLEAN :
        \/ Unauthorized("deleteVideo", cred) /\ UNCHANGED hits
        \/ deleteVideo(cred, p, mediaOk)

DeleteVideoRoute == DeleteVideoRouteFor(ClientCreds)

TogglePublishRoute ==
    \E cred \in ClientCreds, p \in ParamsOf(VideoIdSpace) :
        \/ Unauthorized("togglePublishStatus", cred) /\ UNCHANGED hits
        \/ togglePublishStatus(cred, p)

UpdateTweetRoute ==
    \E cred \in ClientCreds, p \in ParamsOf(OneIdSpace),
       content \in BodyTexts :
        \/ Unauthorized("updateTweet", cred) /\ UNCHANGED hits
        \/ updateTweet(cred, p, content)

DeleteTweetRoute ==
    \E cred \in ClientCreds, p \in ParamsOf(OneIdSpace) :
        \/ Unauthorized("deleteTweet", cred) /\ UNCHANGED hits
        \/ deleteTweet(cred, p)

EditCommentRoute ==
    \E cred \in ClientCreds, p \in ParamsOf(OneIdSpace),
       content \in BodyTexts :
        \/ Unauthorized("editComment", cred) /\ UNCHANGED hits
        \/ editComment(cred, p, content)

DeleteCommentRoute ==
    \E cred \in ClientCreds, p \in ParamsOf(OneIdSpace) :
        \/ Unauthorized("deleteComment", cred) /\ UNCHANGED hits
        \/ deleteComment(cred, p)

AddVideoToPlaylistRoute ==
    \E cred \in ClientCreds, pl \in ParamsOf(OneIdSpace),
       vid \in ParamsOf({1}) :
        \/ Unauthorized("addVideoToPlaylist", cred) /\ UNCHANGED hits
        \/ addVideoToPlaylist(cred, pl, vid)

RemoveVideoFromPlaylistRoute ==
    \E cred \in ClientCreds, pl \in ParamsOf(OneIdSpace),
       vid \in ParamsOf({1}) :
        \/ Unauthorized("removeVideoFromPlaylist", cred) /\ UNCHANGED hits
        \/ removeVideoFromPlaylist(cred, pl, vid)

DeletePlaylistRoute ==
    \E cred \in ClientCreds, pl \in ParamsOf(OneIdSpace) :
        \/ Unauthorized("deletePlaylist", cred) /\ UNCHANGED hits
        \/ deletePlaylist(cred, pl)

UpdatePlaylistRoute ==
    \E cred \in ClientCreds, pl \in ParamsOf(OneIdSpace),
       title \in BodyTexts :
        \/ Unauthorized("updatePlaylist", cred) /\ UNCHANGED hits
        \/ updatePlaylist(cred, pl, title)

NextOwner ==
    \/ UpdateVideoRoute \/ DeleteVideoRoute \/ TogglePublishRoute
    \/ UpdateTweetRoute \/ DeleteTweetRoute
    \/ EditCommentRoute \/ DeleteCommentRoute
    \/ AddVideoToPlaylistRoute \/ RemoveVideoFromPlaylistRoute
    \/ DeletePlaylistRoute \/ UpdatePlaylistRoute
    \/ WindowReset
SpecOwner == InitOneKind /\ [][NextOwner]_vars

\* videos that are watched, liked, put in a playlist, and deleted
NextRefs ==
    \/ VideoRoute \/ LikeVideoRouteFor({CookieCred(1), NoCred}) \/ AddVideoToPlaylistRoute
    \/ DeleteVideoRouteFor({CookieCred(1), NoCred})
SpecRefs == Init /\ [][NextRefs]_vars

\* ------------------------------------------------------------------- users
\* what a client types as username or email: a name, in lower or mixed case
RawTexts == {Text(t, caps) : t \in 1..NumNames, caps \in BOOLEAN}
BlankText == Text(EmptyText, FALSE)
EmailInputs == RawTexts \cup {BlankText}

\* the schema's lowercase: true (trim: true changes no text sent here);
\* Mongoose runs it on documents, on updates and on query filters
SchemaSet(s) == toLowerCase(s)

\* a collection without the unique indexes
IndexAllows_NoIndex(u, username, email) == TRUE

\* the unique indexes on username and email: no other document than u's holds
\* either value
IndexAllows(u, username, email) ==
    \A w \in DOMAIN users \ {u} :
        users[w].username # username /\ users[w].email # email

FreeUserIds == UserIdSpace \ DOMAIN users
NewUserId == CHOOSE i \in FreeUserIds : \A j \in FreeUserIds : i <= j

\* findOne with the filter as the client sent it, in its letter case
ExistingUser_RawFilter(username, email) ==
    \E w \in DOMAIN users :
        users[w].username = username \/ users[w].email = email

\* User.findOne({$or: [{username}, {email}]}): the schema's setters are run
\* on the filter values
ExistingUser(username, email) ==
    \E w \in DOMAIN users :
        \/ users[w].username = SchemaSet(username)
        \/ users[w].email = SchemaSet(email)

\* POST /users/register up to the avatar upload: limiter, field checks
\* (fieldsOk: fullName, username and email are there and the password passes
\* the pattern), User.findOne.  avatarOk: an avatar file came with the request
\* and the media host took it.  A registration enters pending when its files
\* are handed to the media host.
registerUserCheck(username, email, password, fieldsOk, avatarOk) ==
    /\ LimiterHit("user", UserLimiterMax)
    /\ UNCHANGED dbvars
    /\ IF LimiterBlocks("user", UserLimiterMax)
       THEN Respond("registerUser", NoCred, NoUser, 0, 429) /\ UNCHANGED <<pending, clock, served>>
       ELSE IF ~fieldsOk
       THEN Respond("registerUser", NoCred, NoUser, 0, 400) /\ UNCHANGED <<pending, clock, served>>
       ELSE IF ExistingUser(username, email)
       THEN Respond("registerUser", NoCred, NoUser, 0, 409) /\ UNCHANGED <<pending, clock, served>>
       ELSE IF ~avatarOk
       THEN Respond("registerUser", NoCred, NoUser, 0, 500) /\ UNCHANGED <<pending, clock, served>>
       ELSE /\ Len(pending) < MaxPending
            /\ pending' = Append(pending, [kind |-> "registerUser",
                                            username |-> username,
                                            email |-> email,
                                            password |-> password])
            /\ UNCHANGED <<clock, served, resp>>

\* the rest of registerUser, after the uploads: User.create, which the unique
\* indexes can refuse (E11000, answered 500)
registerUserCreate(i) ==
    LET username == SchemaSet(toLowerCase(pending[i].username))
        email == SchemaSet(toLowerCase(pending[i].email))
        doc == [username |-> username, email |-> email, watchHistory |-> <<>>,
                version |-> 0,
                password |-> Plain(pending[i].password),
                refreshToken |-> NoRefreshToken]
    IN  /\ pending[i].kind = "registerUser"
        /\ pending' = RemoveAt(pending, i)
        /\ UNCHANGED <<videos, playlists, tweets, comments, likes, subs, hits, clock, served>>
        /\ IF IndexAllows(NoUser, username, email)
           THEN /\ FreeUserIds # {}
                /\ users' = [u \in DOMAIN users \cup {NewUserId} |->
                                IF u = NewUserId THEN PreSave(NewDocument, doc)
                                ELSE users[u]]
                /\ Respond("registerUser", NoCred, NewUserId, NewUserId, 201)
           ELSE /\ UNCHANGED users
                /\ Respond("registerUser", NoCred, NoUser, 0, 500)

\* User.findByIdAndUpdate(req.user._id, {$set: {fullName, email}})
updateAccountDetails(cred, email) ==
    LET u == verifyJWT(cred)
    IN  /\ UNCHANGED <<videos, playlists, tweets, comments, likes, subs>>
        /\ IF email = BlankText
           THEN Respond("updateAccountDetails", cred, u, u, 400) /\ UNCHANGED users
           ELSE IF u \notin DOMAIN users
           THEN Respond("updateAccountDetails", cred, u, 0, 200) /\ UNCHANGED users
           ELSE IF ~IndexAllows(u, users[u].username, SchemaSet(email))
           THEN Respond("updateAccountDetails", cred, u, u, 500) /\ UNCHANGED users
           ELSE /\ users' = [users EXCEPT ![u].email = SchemaSet(email)]
                /\ Respond("updateAccountDetails", cred, u, u, 200)

RegisterCheckRouteFor(Texts, Pws) ==
    \E username \in Texts, email \in Texts, password \in Pws,
       fieldsOk \in BOOLEAN, avatarOk \in BOOLEAN :
        registerUserCheck(username, email, password, fieldsOk, avatarOk)

RegisterCheckRoute == RegisterCheckRouteFor(RawTexts, {1})

RegisterCreateStep == \E i \in 1..Len(pending) : registerUserCreate(i)

\* PATCH /users/update-user is mounted as limiter, verifyJWT, handler.
UpdateAccountRouteFor(Creds) ==
    \E cred \in Creds, email \in EmailInputs :
        /\ LimiterHit("user", UserLimiterMax)
        /\ UNCHANGED <<pending, clock, served>>
        /\ IF LimiterBlocks("user", UserLimiterMax)
           THEN /\ Respond("updateAccountDetails", cred, NoUser, 0, 429)
                /\ UNCHANGED dbvars
           ELSE IF verifyJWT(cred) = NoUser
           THEN /\ Respond("updateAccountDetails", cred, NoUser, 0, 401)
                /\ UNCHANGED dbvars
           ELSE updateAccountDetails(cred, email)

UpdateAccountRoute == UpdateAccountRouteFor(ClientCreds)

\* one registered user; nothing else stored yet
InitUser ==
    /\ users = [u \in {1} |-> SeedUser(u)]
    /\ videos = <<>> /\ playlists = <<>> /\ tweets = <<>> /\ comments = <<>>
    /\ likes = [u \in UserIdSpace |-> <<>>]
    /\ subs = [pair \in UserIdSpace \X UserIdSpace |-> 0]
    /\ hits = NoHits
    /\ pending = <<>>
    /\ clock = 0
    /\ served = NoneServed
    /\ resp = NoResponse

NextUser ==
    \/ RegisterCheckRoute \/ RegisterCreateStep \/ UpdateAccountRoute
    \/ WindowReset
SpecUser == InitUser /\ [][NextUser]_vars

\* registrations only
NextRegister == RegisterCheckRoute \/ RegisterCreateStep \/ WindowReset
SpecRegister == InitUser /\ [][NextRegister]_vars

\* ---------------------------------------------------------------- sessions
\* a password field that was not sent
MissingPassword == -1
PasswordInputs == Passwords \cup {WeakPassword, MissingPassword}

\* the refresh tokens a client can hold or make up by now
RefreshTokens ==
    {NoRefreshToken, BadRefreshToken}
        \cup {RefreshToken(u, t) : u \in UserIdSpace, t \in 0..clock}

\* generateAccessAndRefreshTokens up to its save: the tokens are signed and the
\* request waits for user.save
TokensSigned(op, u, incomingRefreshToken) ==
    /\ Len(pending) < MaxPending
    /\ pending' = Append(pending, [kind |-> "tokens", op |-> op, uid |-> u,
                                   incoming |-> incomingRefreshToken,
                                   refreshToken |-> RefreshToken(u, clock)])
    /\ UNCHANGED <<dbvars, hits, clock, served, resp>>

\* the rest of generateAccessAndRefreshTokens and of the handler that called
\* it: user.refreshToken = refreshToken, user.save, response 200 with cookies
generateAccessAndRefreshTokens(i) ==
    LET r == pending[i]
        u == r.uid
    IN  /\ r.kind = "tokens"
        /\ pending' = RemoveAt(pending, i)
        /\ users' = [users EXCEPT ![u] =
                        PreSave(@, [@ EXCEPT !.refreshToken = r.refreshToken])]
        /\ Respond(r.op, NoCred, u, 0, 200)
        /\ UNCHANGED <<videos, playlists, tweets, comments, likes, subs, hits, clock, served>>

\* the users User.findOne({$or: [{email}]}) can return
FindByEmail(email) == {w \in DOMAIN users : users[w].email = SchemaSet(email)}

\* POST /users/login up to the token save
loginUser(email, password) ==
    LET Answer(status) == /\ Respond("loginUser", NoCred, NoUser, 0, status)
                          /\ UNCHANGED <<dbvars, hits, pending, clock, served>>
    IN  IF email = BlankText \/ password = MissingPassword THEN Answer(400)
        ELSE IF password = WeakPassword THEN Answer(400)
        ELSE IF FindByEmail(email) = {} THEN Answer(404)
        ELSE \E u \in FindByEmail(email) :
                IF ~compareSync(password, users[u].password) THEN Answer(401)
                ELSE TokensSigned("loginUser", u, NoRefreshToken)

\* POST /users/refresh-token up to the token save
refreshAccessToken(incomingRefreshToken) ==
    LET Answer(status) == /\ Respond("refreshAccessToken", NoCred, NoUser, 0, status)
                          /\ UNCHANGED <<dbvars, hits, pending, clock, served>>
        u == incomingRefreshToken.uid
    IN  IF ~incomingRefreshToken.present THEN Answer(401)
        ELSE IF ~incomingRefreshToken.valid THEN Answer(500)
        ELSE IF u \notin DOMAIN users THEN Answer(404)
        ELSE IF incomingRefreshToken # users[u].refreshToken THEN Answer(401)
        ELSE TokensSigned("refreshAccessToken", u, incomingRefreshToken)

\* User.findByIdAndUpdate(req.user._id, {$unset: {refreshToken: 1}})
logoutUser(cred) ==
    LET u == verifyJWT(cred)
    IN  /\ users' = [users EXCEPT ![u].refreshToken = NoRefreshToken]
        /\ Respond("logoutUser", cred, u, 0, 200)
        /\ UNCHANGED <<videos, playlists, tweets, comments, likes, subs, hits, pending, clock, served>>

\* POST /users/logout is mounted as verifyJWT, handler.
LogoutRoute ==
    \E cred \in ClientCreds :
        IF verifyJWT(cred) = NoUser
        THEN Unauthorized("logoutUser", cred) /\ UNCHANGED hits
        ELSE logoutUser(cred)

\* a handler that does not ask isPasswordCorrect
changeCurrentPassword_NoCompare(cred, currentPassword, newPassword) ==
    LET u == verifyJWT(cred)
        Answer(status) == /\ Respond("changeCurrentPassword", cred, u, 0, status)
                          /\ UNCHANGED users
    IN  /\ UNCHANGED <<videos, playlists, tweets, comments, likes, subs>>
        /\ IF currentPassword = MissingPassword \/ newPassword = MissingPassword
           THEN Answer(400)
           ELSE IF newPassword = WeakPassword THEN Answer(400)
           ELSE /\ users' = [users EXCEPT ![u] =
                                PreSave(@, [@ EXCEPT !.password = Plain(newPassword)])]
                /\ Respond("changeCurrentPassword", cred, u, 0, 200)

changeCurrentPassword(cred, currentPassword, newPassword) ==
    LET u == verifyJWT(cred)
        Answer(status) == /\ Respond("changeCurrentPassword", cred, u, 0, status)
                          /\ UNCHANGED users
    IN  /\ UNCHANGED <<videos, playlists, tweets, comments, likes, subs>>
        /\ IF currentPassword = MissingPassword \/ newPassword = MissingPassword
           THEN Answer(400)
           ELSE IF newPassword = WeakPassword THEN Answer(400)
           ELSE IF ~compareSync(currentPassword, users[u].password) THEN Answer(401)
           ELSE /\ users' = [users EXCEPT ![u] =
                                PreSave(@, [@ EXCEPT !.password = Plain(newPassword)])]
                /\ Respond("changeCurrentPassword", cred, u, 0, 200)

\* PATCH /users/change-password is mounted as limiter, verifyJWT, handler.
changePasswordRequest(cred, currentPassword, newPassword) ==
    /\ LimiterHit("user", UserLimiterMax)
    /\ UNCHANGED <<pending, clock, served>>
    /\ IF LimiterBlocks("user", UserLimiterMax)
       THEN /\ Respond("changeCurrentPassword", cred, NoUser, 0, 429)
            /\ UNCHANGED dbvars
       ELSE IF verifyJWT(cred) = NoUser
       THEN /\ Respond("changeCurrentPassword", cred, NoUser, 0, 401)
            /\ UNCHANGED dbvars
       ELSE changeCurrentPassword(cred, currentPassword, newPassword)

ChangePasswordRoute ==
    \E cred \in ClientCreds, currentPassword \in PasswordInputs,
       newPassword \in PasswordInputs :
        changePasswordRequest(cred, currentPassword, newPassword)

LoginRoute ==
    \E email \in EmailInputs, password \in PasswordInputs :
        loginUser(email, password)

RefreshRoute == \E tok \in RefreshTokens : refreshAccessToken(tok)

TokenSaveStep == \E i \in 1..Len(pending) : generateAccessAndRefreshTokens(i)

\* a second passes
Tick ==
    /\ clock < MaxClock
    /\ clock' = clock + 1
    /\ UNCHANGED <<dbvars, hits, pending, served, resp>>

\* logins, refreshes and logouts of one user as time passes
NextSession ==
    \/ LoginRoute \/ RefreshRoute \/ TokenSaveStep \/ LogoutRoute
    \/ Tick
SpecSession == InitUser /\ [][NextSession]_vars

\* everything that saves a user document, within one second
NextPassword ==
    \/ RegisterCheckRouteFor({Text(2, FALSE)}, Passwords) \/ RegisterCreateStep
    \/ LoginRoute \/ RefreshRoute \/ TokenSaveStep
    \/ LogoutRoute \/ ChangePasswordRoute
    \/ WindowReset
SpecPassword == InitUser /\ [][NextPassword]_vars

\* password changes and logins of one user
NextChange == ChangePasswordRoute \/ LoginRoute \/ TokenSaveStep \/ WindowReset
SpecChange == InitUser /\ [][NextChange]_vars

\* ---------------------------------------------------------------- database
\* collections[key].deleteMany({}) for every collection, then the media host
\* is asked to drop every file (mediaOk: it did)
emptyDatabase(mediaOk) ==
    /\ users' = <<>> /\ videos' = <<>> /\ playlists' = <<>>
    /\ tweets' = <<>> /\ comments' = <<>>
    /\ likes' = [u \in UserIdSpace |-> <<>>]
    /\ subs' = [pair \in UserIdSpace \X UserIdSpace |-> 0]
    /\ Respond("emptyDatabase", NoCred, NoUser, 0, IF mediaOk THEN 200 ELSE 500)

\* DELETE /database/empty is mounted as limiter, handler.
emptyDatabaseRequest(cred, mediaOk) ==
    /\ LimiterHit("database", DatabaseLimiterMax)
    /\ UNCHANGED <<pending, clock, served>>
    /\ IF LimiterBlocks("database", DatabaseLimiterMax)
       THEN /\ Respond("emptyDatabase", NoCred, NoUser, 0, 429)
            /\ UNCHANGED dbvars
       ELSE emptyDatabase(mediaOk)

EmptyDatabaseRoute ==
    \E cred \in AllCreds, mediaOk \in BOOLEAN : emptyDatabaseRequest(cred, mediaOk)

\* likes on a database that any client may empty
NextDatabase == EmptyDatabaseRoute \/ LikeVideoRoute \/ WindowReset
SpecDatabase == Init /\ [][NextDatabase]_vars

\* ------------------------------------------------------------------ errors
\* the errors handlers raise: ApiErrors with the statuses used in the code, and
\* errors thrown by the runtime, the database driver or jsonwebtoken
Errors ==
    {ApiError(s) : s \in {400, 401, 403, 404, 409, 500}}
        \cup {OtherError(n) : n \in {"TypeError", "MongoServerError",
                                     "JsonWebTokenError"}}

\* A handler wrapped in asyncHandler throws or rejects with thrown: next(err)
\* hands it to errorMiddleware.
handlerThrows(op, thrown) ==
    LET out == errorMiddleware(thrown)
    IN  /\ resp' = [op |-> op, cred |-> NoCred, user |-> NoUser, target |-> 0,
                    status |-> out.status, body |-> out.body]
        /\ UNCHANGED <<dbvars, hits, pending, clock, served>>

\* an error raised in changeCurrentPassword and in verifyJWT passes their catch
\* blocks first; logoutUser has none
ThrowRoute ==
    \E err \in Errors :
        \/ handlerThrows("changeCurrentPassword", HandlerCatch(err))
        \/ handlerThrows("verifyJWT", verifyJWTCatch(err))
        \/ handlerThrows("logoutUser", err)

\* the user routes with handlers that can fail at any point
NextErrors == NextChange \/ LogoutRoute \/ ThrowRoute
SpecErrors == InitUser /\ [][NextErrors]_vars

\* ------------------------------------------------ routes behind verifyJWT
\* Any credential against a route with router.use(verifyJWT) in front of the
\* handlers (likes, videos) and one with the limiter in front of verifyJWT.
NextAuth ==
    \/ LikeVideoRouteFor(AllCreds)
    \/ DeleteVideoRouteFor(AllCreds)
    \/ UpdateAccountRouteFor(AllCreds)
    \/ WindowReset
SpecAuth == Seeded({"video"}) /\ [][NextAuth]_vars

\* ------------------------------------------------------------------ claims
\* v is in the videos / comments / tweets list of u's like document
LikesVideo(lk, u, v) == lk[u] # <<>> /\ v \in Range(lk[u][1].videos)
LikesComment(lk, u, c) == lk[u] # <<>> /\ c \in Range(lk[u][1].comments)
LikesTweet(lk, u, t) == lk[u] # <<>> /\ t \in Range(lk[u][1].tweets)

Toggled(op) == resp'.op = op /\ resp'.status \in {200, 201}

\* C6: a like toggle on an existing video, comment or tweet flips the caller's
\* membership: liked before -> not liked after and 200, not liked before ->
\* liked after and 201.
C6_LikeToggleFlips ==
    [][/\ Toggled("toggleVideoLike") =>
            IF LikesVideo(likes, resp'.user, resp'.target)
            THEN ~LikesVideo(likes', resp'.user, resp'.target) /\ resp'.status = 200
            ELSE LikesVideo(likes', resp'.user, resp'.target) /\ resp'.status = 201
       /\ Toggled("toggleCommentLike") =>
            IF LikesComment(likes, resp'.user, resp'.target)
            THEN ~LikesComment(likes', resp'.user, resp'.target) /\ resp'.status = 200
            ELSE LikesComment(likes', resp'.user, resp'.target) /\ resp'.status = 201
       /\ Toggled("toggleTweetLike") =>
            IF LikesTweet(likes, resp'.user, resp'.target)
            THEN ~LikesTweet(likes', resp'.user, resp'.target) /\ resp'.status = 200
            ELSE LikesTweet(likes', resp'.user, resp'.target) /\ resp'.status = 201
      ]_vars

\* C7: each user has at most one like document, and no id occurs twice in its
\* videos, comments or tweets list.
C7_LikesAreSets ==
    \A u \in DOMAIN likes :
        /\ Len(likes[u]) <= 1
        /\ \A k \in 1..Len(likes[u]) :
            /\ NoDuplicates(likes[u][k].videos)
            /\ NoDuplicates(likes[u][k].comments)
            /\ NoDuplicates(likes[u][k].tweets)

SubscriptionPairs == DOMAIN subs

\* C8: toggleSubscription on an existing channel other than the caller deletes
\* the (caller, channel) subscription when there is one (200) and creates it
\* otherwise (201), and no pair ever has two subscription documents.
C8_SubscriptionToggleFlips ==
    [][/\ \A pair \in SubscriptionPairs : subs'[pair] <= 1
       /\ ( /\ resp'.op = "toggleSubscription"
            /\ resp'.user # NoUser
            /\ resp'.target \in DOMAIN users
            /\ resp'.target # resp'.user )
          => IF subs[<<resp'.user, resp'.target>>] > 0
             THEN /\ subs' = [subs EXCEPT ![<<resp'.user, resp'.target>>] = 0]
                  /\ resp'.status = 200
             ELSE /\ subs' = [subs EXCEPT ![<<resp'.user, resp'.target>>] = 1]
                  /\ resp'.status = 201
      ]_vars

\* an unsubscribe has just been answered
C8_Witness ==
    /\ resp.op = "toggleSubscription"
    /\ resp.status = 200
    /\ resp.target # resp.user
    /\ subs[<<resp.user, resp.target>>] = 0

\* C9: no subscription has subscriber = channel, and a toggle on the caller's
\* own id is answered 400 and changes no subscription.
C9_NoSelfSubscription ==
    [][/\ \A u \in UserIdSpace : subs'[<<u, u>>] = 0
       /\ ( /\ resp'.op = "toggleSubscription"
            /\ resp'.user # NoUser
            /\ resp'.target = resp'.user )
          => (resp'.status = 400 /\ subs' = subs)
      ]_vars

Viewed == resp.op = "getVideoById" /\ resp.status = 200

\* C3: every user's watchHistory holds at most 100 ids whenever no request is
\* running.
C3_HistoryCapped ==
    \A u \in DOMAIN users : Len(users[u].watchHistory) <= HistoryCap

\* a full list whose two oldest entries were cut off by two later views
C3_Witness ==
    /\ Viewed
    /\ Len(users[resp.user].watchHistory) = HistoryCap
    /\ users[resp.user].watchHistory[HistoryCap] = NumVideos + HistoryCap - 2

\* C4: no video id occurs twice in a watchHistory.
C4_HistoryDeduplicated ==
    \A u \in DOMAIN users : NoDuplicates(users[u].watchHistory)

\* the same user has just viewed a video a second time
C4_Witness ==
    /\ Viewed
    /\ videos[resp.target].views = 2
    /\ \A u \in DOMAIN users : u # resp.user => users[u].watchHistory = <<>>
    /\ users[resp.user].watchHistory[1] = resp.target

Others(h, v) == SelectSeq(h, LAMBDA x : x # v)

\* C5: a successful getVideoById(v) by u puts v first, keeps the other entries
\* in their order, and drops entries only from the end and only beyond 100.
C5_MostRecentFirst ==
    [][(resp'.op = "getVideoById" /\ resp'.status = 200) =>
        LET h == users[resp'.user].watchHistory
            g == users'[resp'.user].watchHistory
        IN  /\ g[1] = resp'.target
            /\ Len(g) = Min(HistoryCap, Len(Others(h, resp'.target)) + 1)
            /\ Tail(g) = SubSeq(Others(h, resp'.target), 1, Len(g) - 1)
      ]_vars

\* a video viewed earlier has just been viewed again and moved to the front
C5_Witness ==
    /\ Viewed
    /\ Len(users[resp.user].watchHistory) >= 2
    /\ users[resp.user].watchHistory[1] = resp.target
    /\ users[resp.user].watchHistory[2] \in VideoIds
    /\ videos[resp.target].views = 2
    /\ videos[users[resp.user].watchHistory[2]].views = 1

VideoOps == {"updateVideo", "deleteVideo", "togglePublishStatus"}
TweetOps == {"updateTweet", "deleteTweet"}
CommentOps == {"editComment", "deleteComment"}
PlaylistOps == {"addVideoToPlaylist", "removeVideoFromPlaylist",
                "deletePlaylist", "updatePlaylist"}
OwnerOps == VideoOps \cup TweetOps \cup CommentOps \cup PlaylistOps

\* the owner of the document a request of kind op names, NoUser if none
ResourceOwner(op, t) ==
    IF op \in VideoOps /\ t \in DOMAIN videos THEN videos[t].owner
    ELSE IF op \in TweetOps /\ t \in DOMAIN tweets THEN tweets[t].author
    ELSE IF op \in CommentOps /\ t \in DOMAIN comments THEN comments[t].owner
    ELSE IF op \in PlaylistOps /\ t \in DOMAIN playlists THEN playlists[t].owner
    ELSE NoUser

\* the step answers an authenticated request that names an existing document
\* whose owner is somebody else
ByNonOwner ==
    /\ ~WindowReset
    /\ resp'.op \in OwnerOps
    /\ resp'.user # NoUser
    /\ ResourceOwner(resp'.op, resp'.target) \notin {NoUser, resp'.user}

RefusalStatus(op) == IF op \in PlaylistOps THEN 403 ELSE 401

TokenSent(cred) ==
    IF cred.cookie.present THEN cred.cookie ELSE cred.authorization

\* no token, a token that fails verification, or one of a user that is gone
Rejectable(cred) ==
    \/ ~TokenSent(cred).present
    \/ ~TokenSent(cred).valid
    \/ TokenSent(cred).uid \notin DOMAIN users

AuthOps == {"toggleVideoLike", "deleteVideo", "updateAccountDetails"}
Rejected == ~WindowReset /\ resp'.op \in AuthOps /\ Rejectable(resp'.cred)

\* C1 as stated: a request without a usable token to a route behind verifyJWT
\* is answered 401 and changes no document.
C1_RejectedWith401 ==
    [][Rejected => (resp'.status = 401 /\ UNCHANGED dbvars)]_vars

\* C1: a request without a usable token to a route behind verifyJWT changes no
\* document; it is answered 401, except on a route where the rate limiter is
\* mounted in front of verifyJWT (update-user), where it is answered 429
\* exactly when the limit is used up.
C1_RejectedBeforeHandler ==
    [][Rejected =>
        /\ UNCHANGED dbvars
        /\ IF resp'.op = "updateAccountDetails"
              /\ LimiterBlocks("user", UserLimiterMax)
           THEN resp'.status = 429
           ELSE resp'.status = 401
      ]_vars

\* the token of a user that is gone has just been refused on a like route
C1_Witness ==
    /\ resp.op = "toggleVideoLike"
    /\ resp.cred = CookieCred(GhostUser)
    /\ resp.status = 401

\* C10: no two user documents hold the same username, and no two the same
\* email, whatever the order of the registrations' and updates' steps.
C10_UsernamesEmailsUnique ==
    \A u, w \in DOMAIN users :
        u # w => /\ users[u].username # users[w].username
                 /\ users[u].email # users[w].email

\* two users exist and the unique index has just refused the second of two
\* registrations that both passed the existence check
C10_Witness ==
    /\ Cardinality(DOMAIN users) >= 2
    /\ resp.op = "registerUser"
    /\ resp.status = 500
    /\ pending = <<>>
    /\ hits.user = 2

\* the request bodies whose lower-cased username or email is that of a stored
\* user
TakenBodies ==
    LET usernames == {users[w].username : w \in DOMAIN users}
        emails == {users[w].email : w \in DOMAIN users}
    IN  {b \in RawTexts \X RawTexts :
            toLowerCase(b[1]) \in usernames \/ toLowerCase(b[2]) \in emails}

\* C11 as stated: a registration whose lower-cased username or email is taken
\* is answered 409, creates no user and uploads nothing.
C11_TakenNameAnswered409 ==
    [][\A b \in TakenBodies, fieldsOk \in BOOLEAN, avatarOk \in BOOLEAN :
            registerUserCheck(b[1], b[2], 1, fieldsOk, avatarOk)
            => /\ resp'.status = 409
               /\ UNCHANGED <<users, pending, clock, served>>
      ]_vars

\* C11: a registration whose lower-cased username or email is taken creates no
\* user and uploads nothing; it is answered 429 when the rate limit is used
\* up, else 400 when a field check fails, else 409.
C11_TakenNameRefused ==
    [][\A b \in TakenBodies, fieldsOk \in BOOLEAN, avatarOk \in BOOLEAN :
            registerUserCheck(b[1], b[2], 1, fieldsOk, avatarOk)
            => /\ UNCHANGED <<users, pending, clock, served>>
               /\ resp'.op = "registerUser"
               /\ resp'.status =
                    IF LimiterBlocks("user", UserLimiterMax) THEN 429
                    ELSE IF ~fieldsOk THEN 400 ELSE 409
      ]_vars

\* a registration has just been answered 409 while another one, which passed
\* the check, still waits for its upload
C11_Witness ==
    /\ resp.op = "registerUser"
    /\ resp.status = 409
    /\ pending # <<>>

\* the passwords isPasswordCorrect accepts for a stored value
Accepted(stored) == {p \in PasswordInputs : compareSync(p, stored)}

\* C12: every stored password is the password hashed exactly once, so that
\* isPasswordCorrect accepts that password and no other; a step changes a
\* stored password only when changeCurrentPassword succeeds, to the hash of
\* the new password, and a user document is created only by registerUser, with
\* the hash of the password sent; every other save (the refresh token's)
\* leaves the stored password as it was.
C12_PasswordHashedOnce ==
    /\ [](\A u \in DOMAIN users :
            /\ users[u].password.rounds = 1
            /\ Accepted(users[u].password) = {users[u].password.plain})
    /\ [][\A u \in DOMAIN users' :
            IF u \in DOMAIN users
            THEN users'[u].password # users[u].password =>
                    \E cred \in ClientCreds, cur \in Passwords, new \in Passwords :
                        /\ verifyJWT(cred) = u
                        /\ changePasswordRequest(cred, cur, new)
                        /\ resp'.status = 200
                        /\ Accepted(users'[u].password) = {new}
            ELSE \E i \in 1..Len(pending) :
                    /\ registerUserCreate(i)
                    /\ Accepted(users'[u].password) = {pending[i].password}]_vars

\* a refresh token was saved for a user whose password had been changed
C12_Witness ==
    /\ resp.op = "refreshAccessToken" /\ resp.status = 200
    /\ users[1].refreshToken.present
    /\ users[1].password = Hash(Plain(2))

\* request i in flight is a refresh, and this step completes it
RefreshCompletes(i) ==
    /\ pending[i].kind = "tokens" /\ pending[i].op = "refreshAccessToken"
    /\ generateAccessAndRefreshTokens(i)

\* C13: a refresh goes on to issue tokens only when the token presented is the
\* stored one; when it succeeds the stored token is replaced by a new one, so
\* that the token it presented is no longer the stored one; a refresh that is
\* rejected leaves the stored token as it was.
C13_RefreshRotatesToken ==
    [][/\ \A tok \in RefreshTokens :
            refreshAccessToken(tok) =>
                IF pending' # pending
                THEN tok = users[tok.uid].refreshToken
                ELSE resp'.status \in {401, 404, 500} /\ UNCHANGED users
       /\ \A i \in 1..Len(pending) :
            RefreshCompletes(i) =>
                users'[pending[i].uid].refreshToken # pending[i].incoming]_vars

\* request i in flight is a login, and this step completes it
LoginCompletes(i) ==
    /\ pending[i].kind = "tokens" /\ pending[i].op = "loginUser"
    /\ generateAccessAndRefreshTokens(i)

\* C14: a logout removes the user's stored refresh token; while none is stored
\* every refresh for that user is rejected, and none is stored again until a
\* login of that user completes, so that no token issued before the logout is
\* accepted in between.
C14_LoggedOutUntilLogin ==
    [][/\ \A cred \in ClientCreds :
            (verifyJWT(cred) # NoUser /\ logoutUser(cred)) =>
                ~users'[verifyJWT(cred)].refreshToken.present
       /\ \A tok \in RefreshTokens :
            (/\ tok.uid \in DOMAIN users
             /\ ~users[tok.uid].refreshToken.present
             /\ refreshAccessToken(tok)) => resp'.status = 401 /\ UNCHANGED users
       /\ \A u \in DOMAIN users :
            (~users[u].refreshToken.present /\ users'[u].refreshToken.present) =>
                \E i \in 1..Len(pending) : pending[i].uid = u /\ LoginCompletes(i)]_vars

\* the passwords a client can send as currentPassword or newPassword
SentPasswords == PasswordInputs \ {MissingPassword}

\* C15 as stated: a password change with a wrong current password is answered
\* 401 and changes no password; after a change that succeeded, the old password
\* is refused at login and the new one is accepted.
C15_WrongCurrentAnswered401 ==
    [][\A cred \in UserCreds, cur \in SentPasswords, new \in PasswordInputs :
            (verifyJWT(cred) # NoUser /\ changePasswordRequest(cred, cur, new)) =>
                LET u == verifyJWT(cred)
                IN  /\ ~compareSync(cur, users[u].password) =>
                            resp'.status = 401 /\ UNCHANGED users
                    /\ resp'.status = 200 =>
                            /\ ~compareSync(cur, users'[u].password)
                            /\ compareSync(new, users'[u].password)]_vars

\* the answer of a password change by a logged-in user, check by check
ChangeStatus(u, cur, new) ==
    IF LimiterBlocks("user", UserLimiterMax) THEN 429
    ELSE IF cur = MissingPassword \/ new = MissingPassword \/ new = WeakPassword
    THEN 400
    ELSE IF ~compareSync(cur, users[u].password) THEN 401
    ELSE 200

\* C15: a password change by a logged-in user whose current password is wrong
\* changes no password and is answered 401, unless the limiter (429) or the
\* field checks (400) answer first; a change that succeeds stores the hash of
\* the new password, which is then the only password accepted; a login with a
\* password that passes the pattern is answered 401 exactly when the stored
\* hash does not accept it, and goes on to issue tokens otherwise.
C15_PasswordChangeChecked ==
    [][/\ \A cred \in UserCreds, cur \in PasswordInputs, new \in PasswordInputs :
            (verifyJWT(cred) # NoUser /\ changePasswordRequest(cred, cur, new)) =>
                LET u == verifyJWT(cred)
                IN  /\ resp'.status = ChangeStatus(u, cur, new)
                    /\ IF resp'.status = 200
                       THEN Accepted(users'[u].password) = {new}
                       ELSE UNCHANGED users
       /\ \A email \in RawTexts, password \in Passwords :
            (FindByEmail(email) # {} /\ loginUser(email, password)) =>
                LET u == CHOOSE w \in FindByEmail(email) : TRUE
                IN  IF compareSync(password, users[u].password)
                    THEN pending' # pending
                    ELSE resp'.status = 401 /\ UNCHANGED <<users, pending>>]_vars

\* after a password change, a login with the old password was answered 401
C15_Witness ==
    /\ resp.op = "loginUser" /\ resp.status = 401
    /\ users[1].password = Hash(Plain(2))

\* C16: DELETE /database/empty from a client without a valid token is answered
\* 401 and deletes nothing.
C16_EmptyDatabaseNeedsToken ==
    [][\A cred \in AllCreds, mediaOk \in BOOLEAN :
            (verifyJWT(cred) = NoUser /\ emptyDatabaseRequest(cred, mediaOk)) =>
                resp'.status = 401 /\ UNCHANGED dbvars]_vars

\* C17: a request whose only credential is a valid access token of an existing
\* user in the Authorization header ("Bearer <token>") is authenticated as
\* that user: verifyJWT does not answer it 401.
C17_BearerAuthenticated ==
    \A u \in DOMAIN users :
        (resp.op \in AuthOps /\ resp.cred = BearerCred(u)) => resp.status # 401

\* the requests in flight that have had their view of v counted and have not
\* answered yet
CountedInFlight(v) ==
    {i \in 1..Len(pending) :
        /\ pending[i].kind = "getVideoById"
        /\ pending[i].video = v
        /\ pending[i].pc # "found"}

\* C18: with requests for videos in flight together, the views of a video are
\* the 200 answers sent for it plus the requests already counted that have yet
\* to answer, so that once no request is in flight views = initial views (0) +
\* number of 200 answers; a request answered 400, 401 or 404 changes no count,
\* and a step raises a count by at most one.
C18_ViewsCountedExactly ==
    /\ [](\A v \in DOMAIN videos :
            videos[v].views = served[v] + Cardinality(CountedInFlight(v)))
    /\ [][/\ \A cred \in ClientCreds, p \in ParamsOf(VideoIdSpace) :
                (\/ Unauthorized("getVideoById", cred)
                 \/ getVideoByIdFind(cred, p)) => UNCHANGED <<videos, served>>
          /\ \A v \in DOMAIN videos :
                videos'[v].views \in {videos[v].views, videos[v].views + 1}]_vars

\* C19: after any sequence of addVideoToPlaylist and removeVideoFromPlaylist
\* no playlist holds a video id twice (an add of a video that is in the list
\* leaves the list as it is).
C19_NoVideoTwice ==
    \A i \in DOMAIN playlists : NoDuplicates(playlists[i].videos)

\* r is in the envelope of an error: the HTTP status is the body's statusCode,
\* success is false and data is null
ErrorEnvelope(r) ==
    /\ r.body.statusCode = r.status
    /\ r.body.success = FALSE
    /\ r.body.data = Null

C21_DeleteVideoLeavesReferences ==
    [][(resp'.op = "deleteVideo" /\ videos' # videos) =>
            /\ resp'.target \in DOMAIN videos
            /\ videos' = [w \in DOMAIN videos \ {resp'.target} |-> videos[w]]
            /\ UNCHANGED <<users, playlists, tweets, comments, likes, subs>>]_vars

\* video 1 was deleted while a playlist, a Like document, a comment and a
\* watchHistory held its id, and they still hold it
C21_Witness ==
    /\ resp.op = "deleteVideo" /\ resp.status = 200 /\ resp.target = 1
    /\ 1 \notin DOMAIN videos
    /\ 1 \in Range(playlists[1].videos)
    /\ \E u \in DOMAIN users : LikesVideo(likes, u, 1)
    /\ \E u \in DOMAIN users : 1 \in Range(users[u].watchHistory)
    /\ comments[1].video = 1

\* C22: once every getVideoById request in flight has completed, each user's
\* watchHistory has at most HistoryCap entries and holds no video id twice,
\* whatever the interleaving of the requests' database steps was.
C22_OverlapKeepsCapAndDedup ==
    pending = <<>> =>
        \A u \in DOMAIN users :
            /\ Len(users[u].watchHistory) <= HistoryCap
            /\ NoDuplicates(users[u].watchHistory)

====
